---- MODULE Spec2Model ----
(***************************************************************************)
(* A model of the recommendations REST service: the RecommendationModel    *)
(* store (service/models.py) and the flask-restx resources                 *)
(* (service/routes.py).                                                    *)
(*                                                                         *)
(* A request is handled by a worker.  Every access of the handler to the   *)
(* database is a step of its own: the lookup (db.session.get) ends the     *)
(* first step of PUT, DELETE and POST likes, and the flush and commit of   *)
(* RecommendationModel.update / delete is the second.  POST create and the *)
(* GET handlers reach the database once and are one step.                  *)
(*                                                                         *)
(* Values.  A Python value that may be None is a tuple: <<>> is None (JSON *)
(* null), <<n>> the number n, <<"iso", t>> the ISO-8601 string of the time *)
(* t and <<"dt", t>> the datetime object of the time t.  A JSON body is a  *)
(* function from the keys it holds to such values.  A path id is a tuple   *)
(* of characters.  Scores are small integers standing for floats.          *)
(***************************************************************************)
EXTENDS Integers, Sequences, FiniteSets, TLC

VARIABLES db, nextId, proc, audit

vars == <<db, nextId, proc, audit>>

----------------------------------------------------------------------------
(* Bounds *)

\* ids the sequence hands out: at most MaxId records are ever created
MaxId == 2
\* a like request is accepted by the model while num_likes is below MaxLikes
MaxLikes == 2

Workers == {1, 2}
SeqWorkers == {1}

\* the readings of the clock (datetime.utcnow)
Times == {1}

----------------------------------------------------------------------------
(* HTTP status codes (service.common.status) *)

HTTP_200_OK == 200
HTTP_201_CREATED == 201
HTTP_204_NO_CONTENT == 204
HTTP_400_BAD_REQUEST == 400
HTTP_404_NOT_FOUND == 404
HTTP_415_UNSUPPORTED_MEDIA_TYPE == 415
HTTP_500_INTERNAL_SERVER_ERROR == 500

----------------------------------------------------------------------------
(* Values *)

None == <<>>
Num(n) == <<n>>
Iso(t) == <<"iso", t>>
Dt(t) == <<"dt", t>>

Fields == {"user_id", "product_id", "score", "timestamp", "num_likes"}

\* RecommendationModel(): every attribute is None before it is assigned
NewModel == [k \in Fields |-> None]

----------------------------------------------------------------------------
(* Path ids: str.isdigit, int and the id in the Location header *)

DecimalChars == <<"0", "1", "2", "3", "4", "5", "6", "7", "8", "9">>

\* U+00B2 SUPERSCRIPT TWO: a digit to str.isdigit, no decimal to int
OtherDigitChars == {"sup2"}

IsDecimalChar(c) == \E i \in 1..Len(DecimalChars) : DecimalChars[i] = c

DigitVal(c) == (CHOOSE i \in 1..Len(DecimalChars) : DecimalChars[i] = c) - 1

\* str.isdigit(): at least one character, and every character a digit
IsDigit(s) ==
    /\ Len(s) > 0
    /\ \A i \in 1..Len(s) : IsDecimalChar(s[i]) \/ s[i] \in OtherDigitChars

\* int(s) raises ValueError unless every character is a decimal
IntRaises(s) == \E i \in 1..Len(s) : ~IsDecimalChar(s[i])

RECURSIVE ParseInt(_)
ParseInt(s) ==
    IF Len(s) = 0 THEN 0
    ELSE 10 * ParseInt(SubSeq(s, 1, Len(s) - 1)) + DigitVal(s[Len(s)])

RECURSIVE Str(_)
Str(n) ==
    IF n < 10 THEN <<DecimalChars[n + 1]>>
    ELSE Str(n \div 10) \o <<DecimalChars[(n % 10) + 1]>>

\* a Location that names the id after the new record's
UrlForNextId(id) == Str(id + 1)

\* api.url_for(RecommendationResource, recommendation_id=id)
UrlFor(id) == Str(id)

----------------------------------------------------------------------------
(* RecommendationModel *)

\* the row of a record as db.session.get loads it
Load(id, row) ==
    [user_id |-> Num(row.user_id), product_id |-> Num(row.product_id),
     score |-> Num(row.score), timestamp |-> Dt(row.timestamp),
     num_likes |-> Num(row.num_likes)]

\* RecommendationModel.find
Find(store, by_id) == IF by_id \in DOMAIN store THEN Load(by_id, store[by_id]) ELSE None

Found(store, by_id) == by_id \in DOMAIN store

\* RecommendationModel.serialize of a record loaded from the store
Serialize(id, o) ==
    [id |-> id, user_id |-> o.user_id, product_id |-> o.product_id,
     score |-> o.score,
     timestamp |-> IF o.timestamp = None THEN None ELSE Iso(o.timestamp[2]),
     num_likes |-> o.num_likes]

RequiredKeys == <<"user_id", "product_id", "score", "timestamp">>

\* the first key of data["user_id"] .. data["timestamp"] that raises KeyError
FirstMissing(data) ==
    IF \A i \in 1..Len(RequiredKeys) : RequiredKeys[i] \in DOMAIN data THEN 0
    ELSE CHOOSE i \in 1..Len(RequiredKeys) :
            /\ RequiredKeys[i] \notin DOMAIN data
            /\ \A j \in 1..(i - 1) : RequiredKeys[j] \in DOMAIN data

KeyIndex(k) == CHOOSE i \in 1..Len(RequiredKeys) : RequiredKeys[i] = k

\* a deserialize that reads score with a default instead of data["score"]
DeserializeDefaultingScore(self, data) ==
    LET d == [k \in DOMAIN data \cup {"score"} |->
                IF k \in DOMAIN data THEN data[k] ELSE Num(0)]
        m == FirstMissing(d) IN
    [raised |-> m # 0,
     obj |-> [k \in Fields |->
                IF k = "num_likes"
                THEN IF m # 0 THEN self[k]
                     ELSE IF "num_likes" \in DOMAIN d THEN d[k] ELSE Num(0)
                ELSE IF m = 0 \/ KeyIndex(k) < m THEN d[k] ELSE self[k]]]

\* RecommendationModel.deserialize: the attributes are assigned one after
\* another, so a KeyError leaves the earlier ones assigned
Deserialize(self, data) ==
    LET m == FirstMissing(data) IN
    [raised |-> m # 0,
     obj |-> [k \in Fields |->
                IF k = "num_likes"
                THEN IF m # 0 THEN self[k]
                     ELSE IF "num_likes" \in DOMAIN data THEN data[k] ELSE Num(0)
                ELSE IF m = 0 \/ KeyIndex(k) < m THEN data[k] ELSE self[k]]]

\* the NULL of a column, a value no attribute of a payload has
NullValue == 0 - 100

\* the value a column takes from an attribute
ColumnValue(k, v) ==
    IF v = None THEN NullValue ELSE IF k = "timestamp" THEN v[2] ELSE v[1]

\* columns that accept NULL
NullableOk(o) == TRUE

\* the NOT NULL constraint of every column
NotNullOk(o) == \A k \in Fields : o[k] # None

\* an INSERT that stamps every record with the clock, whatever the caller gave
InsertValuesClockOnly(o, t) ==
    [k \in Fields |->
        IF k = "timestamp" THEN Dt(t)
        ELSE IF k = "num_likes" /\ o[k] = None THEN Num(0)
        ELSE o[k]]

\* the INSERT of RecommendationModel.create: timestamp defaults to utcnow()
\* in create, num_likes to the column default
InsertValues(o, t) ==
    [k \in Fields |->
        IF k = "timestamp" /\ o[k] = None THEN Dt(t)
        ELSE IF k = "num_likes" /\ o[k] = None THEN Num(0)
        ELSE o[k]]

RowOf(o) == [k \in Fields |-> ColumnValue(k, o[k])]

\* the UPDATE of a flush: only the attributes whose value changed are set
Dirty(orig, cur) == {k \in Fields : cur[k] # orig[k]}

\* an UPDATE that never sets the score
UpdatedRowKeepsScore(row, orig, cur) ==
    [k \in Fields |->
        IF k \in Dirty(orig, cur) \ {"score"} THEN ColumnValue(k, cur[k]) ELSE row[k]]

UpdatedRow(row, orig, cur) ==
    [k \in Fields |-> IF k \in Dirty(orig, cur) THEN ColumnValue(k, cur[k]) ELSE row[k]]

----------------------------------------------------------------------------
(* Requests *)

JSON == "application/json"
ContentTypes == {JSON, "text/plain", "none"}

\* two payloads that differ in every field; ProfileB leaves the timestamp and
\* num_likes null and carries an id of its own
ProfileA ==
    [user_id |-> Num(1), product_id |-> Num(3), score |-> Num(5),
     timestamp |-> Iso(0), num_likes |-> Num(1)]

ProfileB ==
    [id |-> Num(1), user_id |-> Num(2), product_id |-> Num(4), score |-> Num(6),
     timestamp |-> None, num_likes |-> None]

Drop(b, k) == [x \in DOMAIN b \ {k} |-> b[x]]

\* the payloads with every required key, with and without num_likes
ValidBodies == {ProfileA, Drop(ProfileA, "num_likes"), ProfileB}

\* the payloads that lack one of the keys deserialize reads with data[key]
MissingKeyBodies == {Drop(Drop(ProfileA, "num_likes"), k) : k \in Fields \ {"num_likes"}}

\* the paths of the ids the sequence hands out, and two that are no integer
IdPaths == {Str(i) : i \in 1..MaxId}
PathIds == IdPaths \cup {<<"a", "b", "c">>, <<"sup2">>}

Kinds == {"POST", "GET", "PUT", "DELETE", "GET_LIKES", "POST_LIKES"}

NoBody == [x \in {} |-> None]

Request(kind, path, ctype, body) ==
    [kind |-> kind, path |-> path, ctype |-> ctype, body |-> body]

Idle == "idle"

NoReq == Request("none", <<>>, "none", NoBody)
NoObj == [id |-> 0, orig |-> NewModel, cur |-> NewModel]
NoResp == [status |-> 0, body |-> None, location |-> <<>>, ops |-> <<>>, at |-> 0]

Response(status, body, ops) ==
    [status |-> status, body |-> body, location |-> <<>>, ops |-> ops, at |-> 0]

\* api.payload: request.get_json() raises 415 unless the body is JSON
PayloadRaises(req) == req.ctype # JSON

----------------------------------------------------------------------------
(* The history of a record, kept for the properties: the num_likes it was  *)
(* created with, the likes answered 200 since, whether likes were its only *)
(* writes, and whether it has been deleted.  An id stays in the history    *)
(* after its record is deleted.                                            *)
NewAudit(base) == [base |-> base, likes |-> 0, clean |-> TRUE, deleted |-> FALSE]

Init ==
    /\ db = [i \in {} |-> NewModel]
    /\ nextId = 1
    /\ proc = [w \in Workers |-> [pc |-> Idle, req |-> NoReq, obj |-> NoObj, resp |-> NoResp]]
    /\ audit = [i \in {} |-> NewAudit(0)]

----------------------------------------------------------------------------
(* The end of a request, and a request between its lookup and its commit *)

Done(w, req, resp) ==
    proc' = [proc EXCEPT ![w] = [pc |-> Idle, req |-> req, obj |-> NoObj, resp |-> resp]]

Hold(w, req, pc, obj, ops) ==
    proc' = [proc EXCEPT ![w] =
                [pc |-> pc, req |-> req, obj |-> obj, resp |-> Response(0, None, ops)]]

\* error_handlers: a DataValidationError that leaves the handler is answered 400
DataValidationErrorStatus == HTTP_400_BAD_REQUEST

\* an exception no handler is registered for is answered 500
UnhandledErrorStatus == HTTP_500_INTERNAL_SERVER_ERROR

\* the body of an error answer
Message(m) == [message |-> m]

InvalidId == Message("Invalid ID format")
NotFound == Message("404 Not Found")

\* the bodies DELETE returns itself: {"error": f"Invalid ID format: ..."} and
\* the text "404 Not Found"
InvalidIdError == [error |-> "Invalid ID format"]
NotFoundText == [text |-> "404 Not Found"]

\* api.abort(status.HTTP_400_BAD_REQUEST, f"Invalid ID format: {recommendation_id}")
InvalidIdResponse == Response(HTTP_400_BAD_REQUEST, InvalidId, <<>>)

\* a missing record answered as if it had been deleted
NotFoundAsNoContent(ops) == Response(HTTP_204_NO_CONTENT, None, ops)

\* api.abort(status.HTTP_404_NOT_FOUND, "404 Not Found")
NotFoundResponse(ops) == Response(HTTP_404_NOT_FOUND, NotFound, ops)

\* int(recommendation_id) raises ValueError, which no handler catches
ValueErrorResponse == Response(UnhandledErrorStatus, Message("ValueError"), <<>>)

----------------------------------------------------------------------------
(* GET /recommendations/<recommendation_id> *)

\* the answer of RecommendationResource.get
GetResponse(store, recommendation_id) ==
    IF ~IsDigit(recommendation_id) THEN InvalidIdResponse
    ELSE IF IntRaises(recommendation_id) THEN ValueErrorResponse
    ELSE LET id == ParseInt(recommendation_id) IN
         IF ~Found(store, id) THEN NotFoundResponse(<<"find">>)
         ELSE Response(HTTP_200_OK, Serialize(id, Find(store, id)), <<"find">>)

GetRecommendation(w, req) ==
    /\ proc[w].pc = Idle
    /\ req.kind = "GET"
    /\ UNCHANGED <<db, nextId, audit>>
    /\ Done(w, req, GetResponse(db, req.path))

(* PUT /recommendations/<recommendation_id>, up to recommendation.update() *)

\* a PUT that takes the id of the record from the body when it carries one
PutRecommendationIdFromBody(w, req) ==
    /\ proc[w].pc = Idle
    /\ req.kind = "PUT"
    /\ UNCHANGED <<db, nextId, audit>>
    /\ IF ~IsDigit(req.path)
       THEN Done(w, req, InvalidIdResponse)
       ELSE IF IntRaises(req.path)
       THEN Done(w, req, Response(UnhandledErrorStatus, Message("DataError"), <<"find">>))
       ELSE LET id == ParseInt(req.path) IN
            IF ~Found(db, id)
            THEN Done(w, req, NotFoundResponse(<<"find">>))
            ELSE IF PayloadRaises(req)
            THEN Done(w, req, Response(HTTP_415_UNSUPPORTED_MEDIA_TYPE, Message("Unsupported Media Type"), <<"find">>))
            ELSE LET orig == Find(db, id)
                     d == Deserialize(orig, req.body)
                     newId == IF "id" \in DOMAIN req.body /\ req.body["id"] # None
                              THEN req.body["id"][1] ELSE id IN
                 IF d.raised
                 THEN Done(w, req, Response(DataValidationErrorStatus, Message("Invalid Recommendation"), <<"find">>))
                 ELSE Hold(w, req, "update", [id |-> newId, orig |-> orig, cur |-> d.obj], <<"find">>)

\* a PUT that commits what deserialize assigned before it raised
PutRecommendationFlushesPartial(w, req) ==
    /\ proc[w].pc = Idle
    /\ req.kind = "PUT"
    /\ UNCHANGED <<nextId, audit>>
    /\ IF ~IsDigit(req.path)
       THEN UNCHANGED db /\ Done(w, req, InvalidIdResponse)
       ELSE IF IntRaises(req.path)
       THEN UNCHANGED db /\ Done(w, req, Response(UnhandledErrorStatus, Message("DataError"), <<"find">>))
       ELSE LET id == ParseInt(req.path) IN
            IF ~Found(db, id)
            THEN UNCHANGED db /\ Done(w, req, NotFoundResponse(<<"find">>))
            ELSE IF PayloadRaises(req)
            THEN UNCHANGED db /\ Done(w, req, Response(HTTP_415_UNSUPPORTED_MEDIA_TYPE, Message("Unsupported Media Type"), <<"find">>))
            ELSE LET orig == Find(db, id)
                     d == Deserialize(orig, req.body) IN
                 IF d.raised
                 THEN /\ db' = IF \A k \in Dirty(orig, d.obj) : d.obj[k] # None
                                THEN [db EXCEPT ![id] = UpdatedRow(db[id], orig, d.obj)]
                                ELSE db
                      /\ Done(w, req, Response(DataValidationErrorStatus, Message("Invalid Recommendation"), <<"find">>))
                 ELSE /\ UNCHANGED db
                      /\ Hold(w, req, "update", [id |-> id, orig |-> orig, cur |-> d.obj], <<"find">>)

PutRecommendation(w, req) ==
    /\ proc[w].pc = Idle
    /\ req.kind = "PUT"
    /\ UNCHANGED <<db, nextId, audit>>
    /\ IF ~IsDigit(req.path)
       THEN Done(w, req, InvalidIdResponse)
       ELSE IF IntRaises(req.path)
       \* find is given the string: the store fails to read it as an integer
       THEN Done(w, req, Response(UnhandledErrorStatus, Message("DataError"), <<"find">>))
       ELSE LET id == ParseInt(req.path) IN
            IF ~Found(db, id)
            THEN Done(w, req, NotFoundResponse(<<"find">>))
            ELSE IF PayloadRaises(req)
            THEN Done(w, req, Response(HTTP_415_UNSUPPORTED_MEDIA_TYPE, Message("Unsupported Media Type"), <<"find">>))
            ELSE LET orig == Find(db, id)
                     d == Deserialize(orig, req.body) IN
                 IF d.raised
                 THEN Done(w, req, Response(DataValidationErrorStatus, Message("Invalid Recommendation"), <<"find">>))
                 ELSE Hold(w, req, "update", [id |-> id, orig |-> orig, cur |-> d.obj], <<"find">>)

(* DELETE /recommendations/<recommendation_id>, up to recommendation.delete() *)

DeleteRecommendation(w, req) ==
    /\ proc[w].pc = Idle
    /\ req.kind = "DELETE"
    /\ UNCHANGED <<db, nextId, audit>>
    /\ IF ~IsDigit(req.path)
       THEN Done(w, req, Response(HTTP_400_BAD_REQUEST, InvalidIdError, <<>>))
       ELSE IF IntRaises(req.path)
       THEN Done(w, req, ValueErrorResponse)
       ELSE LET id == ParseInt(req.path) IN
            IF ~Found(db, id)
            THEN Done(w, req, Response(HTTP_404_NOT_FOUND, NotFoundText, <<"find">>))
            ELSE LET orig == Find(db, id) IN
                 Hold(w, req, "delete", [id |-> id, orig |-> orig, cur |-> orig], <<"find">>)

(* GET /recommendations/<recommendation_id>/likes *)

\* the answer of RecommendationLikesResource.get
GetLikesResponse(store, recommendation_id) ==
    IF ~IsDigit(recommendation_id) THEN InvalidIdResponse
    ELSE IF IntRaises(recommendation_id) THEN ValueErrorResponse
    ELSE LET id == ParseInt(recommendation_id) IN
         IF ~Found(store, id) THEN NotFoundResponse(<<"find">>)
         ELSE Response(HTTP_200_OK,
                       [id |-> recommendation_id, likes |-> Find(store, id).num_likes],
                       <<"find">>)

GetLikes(w, req) ==
    /\ proc[w].pc = Idle
    /\ req.kind = "GET_LIKES"
    /\ UNCHANGED <<db, nextId, audit>>
    /\ Done(w, req, GetLikesResponse(db, req.path))

(* POST /recommendations/<recommendation_id>/likes, up to recommendation.update() *)

\* a like that counts twice
IncrementLikesByTwo(o) == [o EXCEPT !.num_likes = Num(o.num_likes[1] + 2)]

\* recommendation.num_likes += 1
IncrementLikes(o) == [o EXCEPT !.num_likes = Num(o.num_likes[1] + 1)]

PostLikes(w, req) ==
    /\ proc[w].pc = Idle
    /\ req.kind = "POST_LIKES"
    /\ UNCHANGED <<db, nextId, audit>>
    /\ IF ~IsDigit(req.path)
       THEN Done(w, req, InvalidIdResponse)
       ELSE IF IntRaises(req.path)
       THEN Done(w, req, ValueErrorResponse)
       ELSE LET id == ParseInt(req.path) IN
            IF ~Found(db, id)
            THEN Done(w, req, NotFoundResponse(<<"find">>))
            ELSE LET orig == Find(db, id) IN
                 /\ orig.num_likes[1] < MaxLikes
                 /\ Hold(w, req, "update",
                         [id |-> id, orig |-> orig, cur |-> IncrementLikes(orig)],
                         <<"find">>)

----------------------------------------------------------------------------
(* RecommendationModel.update, then serialize: the second step of PUT and   *)
(* of POST likes.  The commit expires the record, so serialize reads the    *)
(* row again; the model takes the commit and that read as one step.         *)

AuditUpdate(kind, id) ==
    IF id \notin DOMAIN audit THEN audit
    ELSE IF kind = "POST_LIKES"
    THEN [audit EXCEPT ![id].likes = IF audit[id].clean THEN @ + 1 ELSE @]
    ELSE [audit EXCEPT ![id] = [@ EXCEPT !.base = 0, !.likes = 0, !.clean = FALSE]]

\* a rollback that keeps what the session flushed
RollbackKeepsFlushed(store, flushed) == flushed

\* db.session.rollback(): the store is as it was before the transaction,
\* whatever the session had flushed
Rollback(store, flushed) == store

\* an UPDATE without its WHERE clause: every row is set
FlushedEveryRow(store, o) ==
    IF o.id \in DOMAIN store /\ \A k \in Dirty(o.orig, o.cur) : o.cur[k] # None
    THEN [i \in DOMAIN store |-> UpdatedRow(store[i], o.orig, o.cur)]
    ELSE store

\* the store after the flush of the changed attributes of o
Flushed(store, o) ==
    IF o.id \in DOMAIN store /\ \A k \in Dirty(o.orig, o.cur) : o.cur[k] # None
    THEN [store EXCEPT ![o.id] = UpdatedRow(store[o.id], o.orig, o.cur)]
    ELSE store

\* the flushed UPDATE fails: the store fails, no row matches the id
\* (StaleDataError), or a column is set to NULL
UpdateFails(store, o, fault) ==
    \/ fault
    \/ /\ Dirty(o.orig, o.cur) # {}
       /\ \/ o.id \notin DOMAIN store
          \/ \E k \in Dirty(o.orig, o.cur) : o.cur[k] = None

\* a commit that merges the object into the store: a row that is gone is
\* inserted again
UpdateMerging(w) ==
    /\ proc[w].pc = "update"
    /\ LET o == proc[w].obj
           req == proc[w].req
           ops == proc[w].resp.ops
           store == IF o.id \in DOMAIN db THEN Flushed(db, o)
                    ELSE (o.id :> RowOf(o.cur)) @@ db IN
       /\ db' = store
       /\ UNCHANGED nextId
       /\ audit' = AuditUpdate(req.kind, o.id)
       /\ Done(w, req, Response(HTTP_200_OK, Serialize(o.id, Find(store, o.id)),
                                ops \o <<"commit">>))

Update(w) ==
    /\ proc[w].pc = "update"
    /\ \E fault \in BOOLEAN :
        LET o == proc[w].obj
            req == proc[w].req
            ops == proc[w].resp.ops IN
        IF UpdateFails(db, o, fault)
        THEN /\ db' = Rollback(db, Flushed(db, o))
             /\ UNCHANGED <<nextId, audit>>
             /\ Done(w, req, Response(DataValidationErrorStatus, Message("DataValidationError"),
                                      ops \o <<"commit", "rollback">>))
        ELSE LET store == Flushed(db, o) IN
             /\ db' = store
             /\ UNCHANGED nextId
             /\ audit' = AuditUpdate(req.kind, o.id)
             /\ IF ~Found(store, o.id)
                THEN Done(w, req, Response(UnhandledErrorStatus, Message("ObjectDeletedError"),
                                           ops \o <<"commit">>))
                ELSE Done(w, req, Response(HTTP_200_OK, Serialize(o.id, Find(store, o.id)),
                                           ops \o <<"commit">>))

(* RecommendationModel.delete: the second step of DELETE *)

\* a DELETE that removes no row
DeleteRowKept(store, id) == store

\* db.session.delete(self), db.session.commit(): a DELETE that matches no row
\* is a warning, not an error
DeleteRow(store, id) == [i \in DOMAIN store \ {id} |-> store[i]]

Delete(w) ==
    /\ proc[w].pc = "delete"
    /\ \E fault \in BOOLEAN :
        LET o == proc[w].obj
            req == proc[w].req
            ops == proc[w].resp.ops IN
        IF fault
        THEN /\ db' = Rollback(db, DeleteRow(db, o.id))
             /\ UNCHANGED <<nextId, audit>>
             /\ Done(w, req, Response(DataValidationErrorStatus, Message("DataValidationError"),
                                      ops \o <<"commit", "rollback">>))
        ELSE /\ db' = DeleteRow(db, o.id)
             /\ audit' = IF o.id \in DOMAIN audit
                         THEN [audit EXCEPT ![o.id] = [base |-> 0, likes |-> 0,
                                                      clean |-> FALSE, deleted |-> TRUE]]
                         ELSE audit
             /\ UNCHANGED nextId
             /\ Done(w, req, Response(HTTP_204_NO_CONTENT, None, ops \o <<"commit">>))

----------------------------------------------------------------------------
(* POST /recommendations: deserialize, RecommendationModel.create, serialize *)

\* the INSERT of create fails: the store fails, or a column is NULL
CreateFails(vals, fault) == fault \/ ~NotNullOk(vals)

\* an id taken from the caller's payload when it carries one
AssignedIdFromCaller(data, seq) ==
    IF "id" \in DOMAIN data /\ data["id"] # None THEN data["id"][1] ELSE seq

\* self.id = None: the id is the next value of the table's sequence, whatever
\* the payload carries (deserialize reads no id)
AssignedId(data, seq) == seq

CreateRecommendation(w, req) ==
    /\ proc[w].pc = Idle
    /\ req.kind = "POST"
    /\ IF PayloadRaises(req)
       THEN /\ UNCHANGED <<db, nextId, audit>>
            /\ Done(w, req, Response(HTTP_415_UNSUPPORTED_MEDIA_TYPE, Message("Unsupported Media Type"), <<>>))
       ELSE LET d == Deserialize(NewModel, req.body) IN
            IF d.raised
            THEN /\ UNCHANGED <<db, nextId, audit>>
                 /\ Done(w, req, Response(DataValidationErrorStatus, Message("Invalid Recommendation"), <<>>))
            ELSE /\ nextId <= MaxId
                 /\ \E t \in Times, fault \in BOOLEAN :
                      LET vals == InsertValues(d.obj, t) IN
                      IF CreateFails(vals, fault)
                      THEN /\ db' = Rollback(db, IF NotNullOk(vals)
                                                 THEN db @@ (AssignedId(req.body, nextId) :> RowOf(vals))
                                                 ELSE db)
                           /\ UNCHANGED audit
                           \* the sequence keeps the value a failed INSERT drew
                           /\ nextId' = IF fault THEN nextId ELSE nextId + 1
                           /\ Done(w, req, Response(DataValidationErrorStatus, Message("DataValidationError"),
                                                    <<"commit", "rollback">>))
                      ELSE LET id == AssignedId(req.body, nextId)
                               row == RowOf(vals) IN
                           /\ db' = db @@ (id :> row)
                           /\ nextId' = nextId + 1
                           /\ audit' = audit @@ (id :> NewAudit(row.num_likes))
                           /\ Done(w, req,
                                   [status |-> HTTP_201_CREATED,
                                    body |-> Serialize(id, Load(id, row)),
                                    location |-> UrlFor(id),
                                    ops |-> <<"commit">>,
                                    at |-> t])

----------------------------------------------------------------------------
(* GET /recommendations and GET /recommendations/filter *)

\* A query string is a function from the parameters it holds to their text:
\* the text of the number n, the text of the day t as YYYY-MM-DD, or a text
\* that is neither.
NumText(n) == <<"num", n>>
DateText(t) == <<"date", t>>
OtherText == <<"text">>

\* int(text), float(text): only the text of a number is read
Coercible(text) == text[1] = "num"
Coerce(text) == Num(text[2])

\* recommendation_args: the parameters parse_args reads, with type int or
\* float; from_date and to_date are read with type str, which reads any text
ParserNumeric == <<"user_id", "product_id", "min_score", "max_score">>

\* parse_args aborts with 400 on an argument it cannot read
ParseArgsAborts(args) ==
    \E i \in 1..Len(ParserNumeric) :
        ParserNumeric[i] \in DOMAIN args /\ ~Coercible(args[ParserNumeric[i]])

\* args.get(name) after parse_args
ParsedArg(args, name) == IF name \in DOMAIN args THEN Coerce(args[name]) ELSE None

\* request.args.get(name, type=int): None when absent or not readable
ArgsGet(args, name) ==
    IF name \in DOMAIN args /\ Coercible(args[name]) THEN Coerce(args[name]) ELSE None

\* if value: (None and 0 are false)
Truthy(v) == v # None /\ v[1] # 0

\* api.marshal_list_with(recommendation_model)
Marshal(o) == [k \in {"id"} \cup Fields |-> o[k]]

\* results = [rec.serialize() for rec in recommendations]
Results(store, ids) == [items |-> {Marshal(Serialize(i, Load(i, store[i]))) : i \in ids}]

\* the answer of RecommendationCollection.get
ListResponse(store, args) ==
    IF ParseArgsAborts(args)
    THEN Response(HTTP_400_BAD_REQUEST, Message("Input payload validation failed"), <<>>)
    ELSE LET user_id == ParsedArg(args, "user_id")
             product_id == ParsedArg(args, "product_id")
             min_score == ParsedArg(args, "min_score")
             max_score == ParsedArg(args, "max_score")
             min_likes == ArgsGet(args, "min_likes")
             max_likes == ArgsGet(args, "max_likes")
             q0 == DOMAIN store
             q1 == IF Truthy(user_id) THEN {i \in q0 : store[i].user_id = user_id[1]} ELSE q0
             q2 == IF Truthy(product_id) THEN {i \in q1 : store[i].product_id = product_id[1]} ELSE q1
             q3 == IF min_score # None THEN {i \in q2 : store[i].score >= min_score[1]} ELSE q2
             q4 == IF max_score # None THEN {i \in q3 : store[i].score <= max_score[1]} ELSE q3
             q5 == IF min_likes # None THEN {i \in q4 : store[i].num_likes >= min_likes[1]} ELSE q4
             q6 == IF max_likes # None THEN {i \in q5 : store[i].num_likes <= max_likes[1]} ELSE q5
         IN Response(HTTP_200_OK, Results(store, q6), <<"query">>)

ListRecommendations(w, req) ==
    /\ proc[w].pc = Idle
    /\ req.kind = "LIST"
    /\ UNCHANGED <<db, nextId, audit>>
    /\ Done(w, req, ListResponse(db, req.args))

FilterKeys == <<"user_id", "product_id", "score", "min_score", "max_score", "min_likes">>

\* a find_by_filters that does not read min_likes
FindByFiltersWithoutLikes(store, filters) ==
    LET q0 == DOMAIN store
        q1 == IF "user_id" \in DOMAIN filters
              THEN {i \in q0 : store[i].user_id = filters["user_id"][1]} ELSE q0
        q2 == IF "product_id" \in DOMAIN filters
              THEN {i \in q1 : store[i].product_id = filters["product_id"][1]} ELSE q1
        q3 == IF "score" \in DOMAIN filters
              THEN {i \in q2 : store[i].score = filters["score"][1]} ELSE q2
        q4 == IF "min_score" \in DOMAIN filters
              THEN {i \in q3 : store[i].score >= filters["min_score"][1]} ELSE q3
        q5 == IF "max_score" \in DOMAIN filters
              THEN {i \in q4 : store[i].score <= filters["max_score"][1]} ELSE q4
    IN q5

\* RecommendationModel.find_by_filters: the ids of the records it returns
FindByFilters(store, filters) ==
    LET q0 == DOMAIN store
        q1 == IF "user_id" \in DOMAIN filters
              THEN {i \in q0 : store[i].user_id = filters["user_id"][1]} ELSE q0
        q2 == IF "product_id" \in DOMAIN filters
              THEN {i \in q1 : store[i].product_id = filters["product_id"][1]} ELSE q1
        q3 == IF "score" \in DOMAIN filters
              THEN {i \in q2 : store[i].score = filters["score"][1]} ELSE q2
        q4 == IF "min_score" \in DOMAIN filters
              THEN {i \in q3 : store[i].score >= filters["min_score"][1]} ELSE q3
        q5 == IF "max_score" \in DOMAIN filters
              THEN {i \in q4 : store[i].score <= filters["max_score"][1]} ELSE q4
        q6 == IF "min_likes" \in DOMAIN filters
              THEN {i \in q5 : store[i].num_likes >= filters["min_likes"][1]} ELSE q5
    IN q6

\* RecommendationModel.all
All(store) == DOMAIN store

\* the filters of RecommendationFilterResource.get: request.args.get of each
\* key, the None values removed
FiltersOf(args) ==
    [k \in {FilterKeys[i] : i \in {j \in 1..Len(FilterKeys) : ArgsGet(args, FilterKeys[j]) # None}}
        |-> ArgsGet(args, k)]

\* filters.get(key, 0)
GetOrZero(filters, key) == IF key \in DOMAIN filters THEN filters[key][1] ELSE 0

\* a validation that looks at min_score only
FilterErrorsMinOnly(filters) ==
    IF GetOrZero(filters, "min_score") < 0 THEN {"min_score must be non-negative."} ELSE {}

\* the errors of RecommendationFilterResource.get
FilterErrors(filters) ==
    (IF GetOrZero(filters, "min_score") < 0 THEN {"min_score must be non-negative."} ELSE {})
    \cup (IF GetOrZero(filters, "max_score") < 0 THEN {"max_score must be non-negative."} ELSE {})

\* the answer of RecommendationFilterResource.get
FilterResponse(store, args) ==
    LET filters == FiltersOf(args) IN
    IF FilterErrors(filters) # {}
    THEN Response(HTTP_400_BAD_REQUEST, [errors |-> FilterErrors(filters)], <<>>)
    ELSE Response(HTTP_200_OK, Results(store, FindByFilters(store, filters)), <<"query">>)

FilterRecommendations(w, req) ==
    /\ proc[w].pc = Idle
    /\ req.kind = "FILTER"
    /\ UNCHANGED <<db, nextId, audit>>
    /\ Done(w, req, FilterResponse(db, req.args))

----------------------------------------------------------------------------
(* Specifications *)

BodilessRequests(kind, paths) == {Request(kind, p, "none", NoBody) : p \in paths}

\* the requests of a specification, by handler
RequestsOf(paths, bodies, ctypes) ==
    [POST |-> {Request("POST", <<>>, JSON, b) : b \in bodies}
                \cup {Request("POST", <<>>, c, NoBody) : c \in ctypes \ {JSON}},
     PUT |-> {Request("PUT", p, JSON, b) : p \in paths, b \in bodies}
                \cup {Request("PUT", p, c, NoBody) : p \in paths, c \in ctypes \ {JSON}},
     GET |-> BodilessRequests("GET", paths),
     DELETE |-> BodilessRequests("DELETE", paths),
     GET_LIKES |-> BodilessRequests("GET_LIKES", paths),
     POST_LIKES |-> BodilessRequests("POST_LIKES", paths)]

\* well-formed requests: an integer id, a JSON body with every required key
WellFormed == RequestsOf(IdPaths, ValidBodies, {JSON})

\* requests of every shape over records of one payload: ids that are no
\* integer, bodies that are no JSON, bodies that lack a key
AnyShape ==
    RequestsOf(PathIds, {Drop(ProfileA, "num_likes")} \cup MissingKeyBodies, ContentTypes)

Step(w, R) ==
    \/ \E req \in R.GET : GetRecommendation(w, req)
    \/ \E req \in R.PUT : PutRecommendation(w, req)
    \/ \E req \in R.DELETE : DeleteRecommendation(w, req)
    \/ \E req \in R.GET_LIKES : GetLikes(w, req)
    \/ \E req \in R.POST_LIKES : PostLikes(w, req)
    \/ \E req \in R.POST : CreateRecommendation(w, req)
    \/ Update(w)
    \/ Delete(w)

\* well-formed requests, one after another
Next == \E w \in SeqWorkers : Step(w, WellFormed)

\* requests of every shape, one after another
NextInput == \E w \in SeqWorkers : Step(w, AnyShape)

SpecInput == Init /\ [][NextInput]_vars

Spec == Init /\ [][Next]_vars

----------------------------------------------------------------------------
(* Concurrent requests: two workers, each with a session of its own, over   *)
(* a store that holds one record.  The steps of the two requests interleave *)
(* at the accesses to the database (read committed).                        *)

\* the store after POST of ProfileB without num_likes at the clock reading 1
InitConc ==
    /\ db = (1 :> [user_id |-> 2, product_id |-> 4, score |-> 6, timestamp |-> 1, num_likes |-> 0])
    /\ nextId = 2
    /\ proc = [w \in Workers |-> [pc |-> Idle, req |-> NoReq, obj |-> NoObj, resp |-> NoResp]]
    /\ audit = (1 :> NewAudit(0))

Concurrent == RequestsOf({Str(1)}, {ProfileA}, {JSON})

NextConc == \E w \in Workers : Step(w, Concurrent)

SpecConc == InitConc /\ [][NextConc]_vars

----------------------------------------------------------------------------
(* Queries: records are created and liked, and the collection is listed and *)
(* filtered, one request after another.                                     *)

QueryRequest(kind, args) ==
    [kind |-> kind, path |-> <<>>, ctype |-> "none", body |-> NoBody, args |-> args]

\* the texts a parameter is given: numbers around the stored values, 0 and a
\* negative score among them
ArgTexts ==
    [user_id |-> {NumText(0), NumText(1), NumText(2)},
     product_id |-> {NumText(0), NumText(3)},
     score |-> {NumText(5), NumText(6)},
     min_score |-> {NumText(-1), NumText(0), NumText(6)},
     max_score |-> {NumText(-1), NumText(5)},
     min_likes |-> {NumText(0), NumText(1), NumText(2)},
     max_likes |-> {NumText(0), NumText(1)},
     from_date |-> {DateText(0), DateText(1)},
     to_date |-> {DateText(0), DateText(1)}]

\* the query strings with no parameter, with one, and with two of them
QueriesOver(params, pairs) ==
    {[k \in {} |-> OtherText]}
    \cup {[k \in {p} |-> v] : p \in params, v \in UNION {ArgTexts[q] : q \in params}}
    \cup UNION {{(pq[1] :> v1) @@ (pq[2] :> v2) : v1 \in ArgTexts[pq[1]], v2 \in ArgTexts[pq[2]]}
                    : pq \in pairs}

OfParameter(q) == \A k \in DOMAIN q : q[k] \in ArgTexts[k]

ListParams ==
    {"user_id", "product_id", "min_score", "max_score", "min_likes", "max_likes",
     "from_date", "to_date"}

\* well-typed queries of GET /recommendations, and queries with a text that
\* is not of the parameter's type
ListQueries ==
    {q \in QueriesOver(ListParams, {<<"user_id", "min_score">>, <<"min_score", "max_score">>,
                                    <<"min_likes", "max_likes">>}) : OfParameter(q)}
    \cup {[k \in {p} |-> OtherText] : p \in ListParams}

\* well-typed queries of GET /recommendations/filter
FilterQueries ==
    {q \in QueriesOver({FilterKeys[i] : i \in 1..Len(FilterKeys)},
                       {<<"user_id", "min_score">>, <<"min_score", "max_score">>,
                        <<"score", "min_likes">>}) : OfParameter(q)}

Creates == {Request("POST", <<>>, JSON, b) : b \in {ProfileA, ProfileB}}

NextQuery ==
    \E w \in SeqWorkers :
        \/ \E req \in Creates : CreateRecommendation(w, req)
        \/ \E req \in BodilessRequests("POST_LIKES", IdPaths) : PostLikes(w, req)
        \/ Update(w)
        \/ \E q \in ListQueries : ListRecommendations(w, QueryRequest("LIST", q))
        \/ \E q \in FilterQueries : FilterRecommendations(w, QueryRequest("FILTER", q))

SpecQuery == Init /\ [][NextQuery]_vars

----------------------------------------------------------------------------
(* RecommendationModel().deserialize(d).serialize() on dictionaries, as the *)
(* model tests call it: no record is stored.                                *)

\* self.timestamp.isoformat() raises AttributeError on a timestamp that is a
\* string, as deserialize leaves it
SerializeRaises(o) == o.timestamp # None /\ o.timestamp[1] # "dt"

\* the result of the two calls on a new object, whose id is None
DeserializeSerialize(d) ==
    LET r == Deserialize(NewModel, d) IN
    IF r.raised THEN Message("DataValidationError")
    ELSE IF SerializeRaises(r.obj) THEN Message("AttributeError")
    ELSE [k \in {"id"} \cup Fields |-> IF k = "id" THEN None ELSE Serialize(0, r.obj)[k]]

RoundTrip(w, req) ==
    /\ proc[w].pc = Idle
    /\ req.kind = "ROUNDTRIP"
    /\ UNCHANGED <<db, nextId, audit>>
    /\ Done(w, req, Response(0, DeserializeSerialize(req.body), <<>>))

\* dictionaries with every required key: the timestamp an ISO string, a
\* datetime or None, with and without num_likes and id
Dicts ==
    UNION {{[k \in ks |-> full[k]] :
                ks \in {Fields, Fields \ {"num_likes"}, Fields \cup {"id"},
                        (Fields \ {"num_likes"}) \cup {"id"}}} :
            full \in [id : {None, Num(1)}, user_id : {Num(1), Num(2)}, product_id : {Num(3)},
                      score : {Num(5), Num(6)},
                      timestamp : {Iso(0), Iso(1), Dt(0), None},
                      num_likes : {Num(0), Num(1), Num(2)}]}

NextDict == \E w \in SeqWorkers, d \in Dicts : RoundTrip(w, Request("ROUNDTRIP", <<>>, "none", d))

SpecDict == Init /\ [][NextDict]_vars

----------------------------------------------------------------------------
(* Writes with payloads of every value, one request after another: a        *)
(* payload that carries an id and a negative num_likes, one with a null     *)
(* user_id, one without a timestamp, over records of another payload.       *)

ProfileC == [ProfileA EXCEPT !.num_likes = Num(0 - 1)] @@ [id |-> Num(2)]

NullUser == [ProfileA EXCEPT !.user_id = None]

StoreBodies == {ProfileB, ProfileC, NullUser, Drop(ProfileA, "timestamp")}

StoreQueries == {[k \in {} |-> OtherText], [k \in {"user_id"} |-> NumText(1)]}

NextStore ==
    \E w \in SeqWorkers :
        \/ Step(w, RequestsOf(IdPaths, StoreBodies, {JSON}))
        \/ \E q \in StoreQueries : ListRecommendations(w, QueryRequest("LIST", q))
        \/ \E q \in StoreQueries : FilterRecommendations(w, QueryRequest("FILTER", q))

SpecStore == Init /\ [][NextStore]_vars

----------------------------------------------------------------------------
(* The finders of RecommendationModel, called on the store as the model     *)
(* tests call them, between creates and deletes.                            *)

\* a finder that compares the product_id with the user_id it is given
FindByUserOnProduct(store, user_id) == {i \in DOMAIN store : store[i].product_id = user_id}

\* cls.query.filter(cls.user_id == user_id).all()
FindByUser(store, user_id) == {i \in DOMAIN store : store[i].user_id = user_id}

\* cls.query.filter(cls.product_id == product_id).all()
FindByProduct(store, product_id) == {i \in DOMAIN store : store[i].product_id = product_id}

\* the records a finder returns: each with its id and its attributes
Records(store, ids) == [items |-> {[id |-> i, obj |-> Load(i, store[i])] : i \in ids}]

\* the ids, user_ids and product_ids the finders are called with: those of
\* the stored records and one more
FinderArgs == 1..(MaxId + 2)

FinderCalls ==
    {QueryRequest("ALL", [k \in {} |-> 0])}
    \cup {QueryRequest(kind, [by |-> a]) :
            kind \in {"FIND", "FIND_BY_USER", "FIND_BY_PRODUCT"}, a \in FinderArgs}

FinderResult(store, req) ==
    IF req.kind = "ALL" THEN Records(store, All(store))
    ELSE IF req.kind = "FIND" THEN [found |-> Find(store, req.args.by)]
    ELSE IF req.kind = "FIND_BY_USER" THEN Records(store, FindByUser(store, req.args.by))
    ELSE Records(store, FindByProduct(store, req.args.by))

Finder(w, req) ==
    /\ proc[w].pc = Idle
    /\ Done(w, req, Response(0, FinderResult(db, req), <<"query">>))
    /\ UNCHANGED <<db, nextId, audit>>

NextFind ==
    \E w \in SeqWorkers :
        \/ \E req \in Creates : CreateRecommendation(w, req)
        \/ \E req \in BodilessRequests("DELETE", IdPaths) : DeleteRecommendation(w, req)
        \/ Delete(w)
        \/ \E req \in FinderCalls : Finder(w, req)

SpecFind == Init /\ [][NextFind]_vars

----------------------------------------------------------------------------
(* A PUT and a like of the same record by two workers: the record has one   *)
(* like, and the PUT carries the payload with or without its num_likes.     *)

InitRace ==
    /\ db = (1 :> [user_id |-> 2, product_id |-> 4, score |-> 6, timestamp |-> 1, num_likes |-> 1])
    /\ nextId = 2
    /\ proc = [w \in Workers |-> [pc |-> Idle, req |-> NoReq, obj |-> NoObj, resp |-> NoResp]]
    /\ audit = (1 :> NewAudit(1))

Racing == RequestsOf({Str(1)}, {ProfileA, Drop(ProfileA, "num_likes")}, {JSON})

NextRace ==
    \E w \in Workers :
        \/ \E req \in Racing.PUT : PutRecommendation(w, req)
        \/ \E req \in Racing.POST_LIKES : PostLikes(w, req)
        \/ Update(w)

SpecRace == InitRace /\ [][NextRace]_vars

----------------------------------------------------------------------------
(* Properties *)

\* worker w has answered a request and taken no other since
Completed(w) == proc[w].pc = Idle /\ proc[w].req.kind # "none"

\* worker w starts a request of one of the kinds in this step
Starts(w, kinds) == proc[w].pc = Idle /\ proc'[w] # proc[w] /\ proc'[w].req.kind \in kinds

\* a string of one or more ASCII decimal digits
IntegerFormatted(s) == Len(s) > 0 /\ \A i \in 1..Len(s) : IsDecimalChar(s[i])

IdKinds == {"GET", "PUT", "DELETE", "GET_LIKES", "POST_LIKES"}

(* C1 *)

C1_GetLikesReportsCount ==
    \A w \in Workers :
        (Completed(w) /\ proc[w].req.kind = "GET_LIKES" /\ proc[w].resp.status = HTTP_200_OK) =>
            LET id == ParseInt(proc[w].req.path) IN
            (id \in DOMAIN audit /\ audit[id].clean /\ audit[id].base = 0) =>
                proc[w].resp.body.likes = Num(audit[id].likes)

C1_LikeAddsOne ==
    \A w \in Workers :
        (/\ proc[w].pc = "update"
         /\ proc[w].req.kind = "POST_LIKES"
         /\ proc'[w].pc = Idle
         /\ proc'[w].resp.status = HTTP_200_OK) =>
            LET id == proc[w].obj.id IN
            /\ id \in DOMAIN db
            /\ id \in DOMAIN db'
            /\ db'[id].num_likes = db[id].num_likes + 1

\* C1: with requests one after another, GET likes of a record created with
\* num_likes 0 and written only by likes reports the number of like requests
\* answered 200, and each like answered 200 raises the stored num_likes by 1.
C1_SequentialLikes == [](C1_GetLikesReportsCount) /\ [][C1_LikeAddsOne]_vars

\* GET likes reports 2 after two likes of a record created with num_likes 0
C1_Witness ==
    \E w \in Workers :
        /\ Completed(w)
        /\ proc[w].req.kind = "GET_LIKES"
        /\ proc[w].resp.status = HTTP_200_OK
        /\ LET id == ParseInt(proc[w].req.path) IN
           /\ id \in DOMAIN audit
           /\ audit[id].clean
           /\ audit[id].base = 0
           /\ audit[id].likes = 2
           /\ proc[w].resp.body.likes = Num(2)

(* C2 *)

LikeInFlight(id) ==
    \E w \in Workers :
        proc[w].pc = "update" /\ proc[w].req.kind = "POST_LIKES" /\ proc[w].obj.id = id

\* C2: when like requests of one record run concurrently and every one is
\* answered 200, the stored num_likes is its initial value plus the number of
\* those requests (the record being written by likes only).
C2_NoLostLike ==
    \A id \in DOMAIN db :
        (audit[id].clean /\ ~LikeInFlight(id)) =>
            db[id].num_likes = audit[id].base + audit[id].likes

(* C3 *)

\* C3: the stored num_likes of a record never decreases, and it changes only
\* in the commit of a like request for that record.
C3_LikesChangeOnlyByLike ==
    [][\A id \in DOMAIN db \cap DOMAIN db' :
        /\ db'[id].num_likes >= db[id].num_likes
        /\ db'[id].num_likes # db[id].num_likes =>
            \E w \in Workers :
                /\ proc[w].pc = "update"
                /\ proc[w].req.kind = "POST_LIKES"
                /\ proc[w].obj.id = id
                /\ proc'[w].pc = Idle]_vars

(* C4 *)

Supplied(body, k) == k \in DOMAIN body /\ body[k] # None

\* C4: after a create that succeeded, find by the assigned id returns a
\* record with the caller's user_id, product_id and score, a non-null id, the
\* caller's timestamp or else the clock reading of the create, and num_likes 0
\* when the caller gave none.
C4_CreateThenFind ==
    \A w \in Workers :
        (Completed(w) /\ proc[w].req.kind = "POST" /\ proc[w].resp.status = HTTP_201_CREATED) =>
            LET b == proc[w].req.body
                id == proc[w].resp.body.id
                r == Find(db, id) IN
            /\ id \in 1..MaxId
            /\ Found(db, id)
            /\ r.user_id = b.user_id
            /\ r.product_id = b.product_id
            /\ r.score = b.score
            /\ r.timestamp = IF Supplied(b, "timestamp") THEN Dt(b.timestamp[2])
                             ELSE Dt(proc[w].resp.at)
            /\ ~Supplied(b, "num_likes") => r.num_likes = Num(0)

\* a create whose caller gave neither a timestamp nor num_likes
C4_Witness ==
    \E w \in Workers :
        /\ Completed(w)
        /\ proc[w].req.kind = "POST"
        /\ proc[w].resp.status = HTTP_201_CREATED
        /\ proc[w].req.body.timestamp = None
        /\ ~Supplied(proc[w].req.body, "num_likes")
        /\ proc[w].resp.at \in Times
        /\ Find(db, proc[w].resp.body.id).timestamp = Dt(proc[w].resp.at)
        /\ Find(db, proc[w].resp.body.id).num_likes = Num(0)

(* C5 *)

\* C5: a POST whose JSON body holds exactly user_id, product_id and score is
\* answered 201, and the record it created has num_likes 0 and a timestamp.
C5_RequiredFieldsSuffice ==
    \A w \in Workers :
        (/\ Completed(w)
         /\ proc[w].req.kind = "POST"
         /\ proc[w].req.ctype = JSON
         /\ DOMAIN proc[w].req.body = {"user_id", "product_id", "score"}) =>
            /\ proc[w].resp.status = HTTP_201_CREATED
            /\ LET g == GetResponse(db, proc[w].resp.location) IN
               /\ g.status = HTTP_200_OK
               /\ g.body.num_likes = Num(0)
               /\ g.body.timestamp # None

(* C6 *)

\* C6: a POST answered 201 carries the serialized new record and a Location,
\* and a GET of that Location is answered 200 with the user_id, product_id
\* and score of the request body and the id the POST returned.
C6_LocationResolves ==
    \A w \in Workers :
        (Completed(w) /\ proc[w].req.kind = "POST" /\ proc[w].resp.status = HTTP_201_CREATED) =>
            LET b == proc[w].req.body
                r == proc[w].resp
                g == GetResponse(db, r.location) IN
            /\ r.location # <<>>
            /\ r.body.user_id = b.user_id
            /\ r.body.product_id = b.product_id
            /\ r.body.score = b.score
            /\ g.status = HTTP_200_OK
            /\ g.body.id = r.body.id
            /\ g.body.user_id = b.user_id
            /\ g.body.product_id = b.product_id
            /\ g.body.score = b.score

\* the second record created: its Location is the path of id 2
C6_Witness ==
    \E w \in Workers :
        /\ Completed(w)
        /\ proc[w].req.kind = "POST"
        /\ proc[w].resp.status = HTTP_201_CREATED
        /\ proc[w].resp.body.id = 2
        /\ GetResponse(db, proc[w].resp.location).status = HTTP_200_OK

(* C7 *)

\* C7: a POST or PUT whose Content-Type is not application/json is answered
\* 415 with no lookup and no write before the answer.
C7_MediaTypeFirst ==
    \A w \in Workers :
        (Completed(w) /\ proc[w].req.kind \in {"POST", "PUT"} /\ proc[w].req.ctype # JSON) =>
            /\ proc[w].resp.status = HTTP_415_UNSUPPORTED_MEDIA_TYPE
            /\ proc[w].resp.ops = <<>>

(* C8 *)

\* C8: on every endpoint with an id in the path, an id that is no integer is
\* answered 400 naming the invalid id format, with no lookup and no write.
C8_InvalidIdRejected ==
    \A w \in Workers :
        (Completed(w) /\ proc[w].req.kind \in IdKinds /\ ~IntegerFormatted(proc[w].req.path)) =>
            /\ proc[w].resp.status = HTTP_400_BAD_REQUEST
            /\ proc[w].resp.body \in {InvalidId, InvalidIdError}
            /\ proc[w].resp.ops = <<>>

(* C9 *)

\* C9: a request on an endpoint with an id in the path whose integer id names
\* no persisted record is answered 404 in that step and leaves the store as
\* it was.
C9_MissingIdNotFound ==
    [][\A w \in Workers :
        (/\ Starts(w, IdKinds)
         /\ IntegerFormatted(proc'[w].req.path)
         /\ ParseInt(proc'[w].req.path) \notin DOMAIN db) =>
            /\ proc'[w].pc = Idle
            /\ proc'[w].resp.status = HTTP_404_NOT_FOUND
            /\ db' = db
            /\ nextId' = nextId]_vars

\* a like of an id that a DELETE removed, answered 404 while another record
\* is stored
C9_Witness ==
    \E w \in Workers :
        /\ Completed(w)
        /\ proc[w].req.kind = "POST_LIKES"
        /\ proc[w].req.path = Str(1)
        /\ proc[w].resp.status = HTTP_404_NOT_FOUND
        /\ DOMAIN db = {2}

(* C10 *)

\* C10: a POST whose JSON body lacks user_id, product_id or score is answered
\* 400 and persists no record.
C10_MissingFieldRejected ==
    [][\A w \in Workers :
        (/\ Starts(w, {"POST"})
         /\ proc'[w].req.ctype = JSON
         /\ {"user_id", "product_id", "score"} \ DOMAIN proc'[w].req.body # {}) =>
            /\ proc'[w].pc = Idle
            /\ proc'[w].resp.status = HTTP_400_BAD_REQUEST
            /\ db' = db]_vars

\* a POST without score answered 400 while a record is stored
C10_Witness ==
    \E w \in Workers :
        /\ Completed(w)
        /\ proc[w].req.kind = "POST"
        /\ proc[w].req.ctype = JSON
        /\ "score" \notin DOMAIN proc[w].req.body
        /\ proc[w].resp.status = HTTP_400_BAD_REQUEST
        /\ DOMAIN db # {}

(* C11 *)

\* the record of id was deleted
Deleted(id) == id \in DOMAIN audit /\ audit[id].deleted

\* C11: once a DELETE of an id was answered 204, every GET and every DELETE
\* of that id that starts later is answered 404.
C11_DeletedStaysGone ==
    [][\A w \in Workers :
        (/\ Starts(w, {"GET", "DELETE"})
         /\ IntegerFormatted(proc'[w].req.path)
         /\ Deleted(ParseInt(proc'[w].req.path))) =>
            /\ proc'[w].pc = Idle
            /\ proc'[w].resp.status = HTTP_404_NOT_FOUND]_vars

\* a DELETE of a deleted id answered 404
C11_Witness ==
    \E w \in Workers :
        /\ Completed(w)
        /\ proc[w].req.kind = "DELETE"
        /\ Deleted(ParseInt(proc[w].req.path))
        /\ proc[w].resp.status = HTTP_404_NOT_FOUND

(* C12 *)

\* a body that gives a value to each of user_id, product_id, score, timestamp
GivesEveryField(body) ==
    \A k \in {"user_id", "product_id", "score", "timestamp"} : Supplied(body, k)

RolledBack(resp) == Len(resp.ops) > 0 /\ resp.ops[Len(resp.ops)] = "rollback"

\* C12: a PUT of a body that gives every field to a stored id goes on to the
\* commit; unless the commit fails it is answered 200, and a GET of the id
\* then returns the record, under the same id, with the user_id, product_id,
\* score and timestamp of the body.
C12_PutOverwrites ==
    [][\A w \in Workers :
        /\ (/\ Starts(w, {"PUT"})
            /\ GivesEveryField(proc'[w].req.body)
            /\ ParseInt(proc'[w].req.path) \in DOMAIN db) =>
                proc'[w].pc = "update"
        /\ (/\ proc[w].pc = "update"
            /\ proc[w].req.kind = "PUT"
            /\ proc'[w].pc = Idle
            /\ GivesEveryField(proc[w].req.body)) =>
                LET b == proc[w].req.body
                    r == proc'[w].resp
                    g == GetResponse(db', proc[w].req.path) IN
                \/ RolledBack(r) /\ db' = db
                \/ /\ r.status = HTTP_200_OK
                   /\ g.status = HTTP_200_OK
                   /\ g.body.id = ParseInt(proc[w].req.path)
                   /\ g.body.user_id = b.user_id
                   /\ g.body.product_id = b.product_id
                   /\ g.body.score = b.score
                   /\ g.body.timestamp = b.timestamp]_vars

\* a PUT answered 200 on the second record, which now holds the body's values
C12_Witness ==
    \E w \in Workers :
        /\ Completed(w)
        /\ proc[w].req.kind = "PUT"
        /\ proc[w].req.path = Str(2)
        /\ proc[w].resp.status = HTTP_200_OK
        /\ 2 \in DOMAIN db
        /\ Num(db[2].score) = proc[w].req.body.score
        /\ Num(db[2].user_id) = proc[w].req.body.user_id

(* C19 *)

\* C19: a create, update or delete whose commit fails rolls back, raises
\* DataValidationError to its caller and leaves the stored records as they
\* were before the call.
C19_FailedCommitRollsBack ==
    [][\A w \in Workers :
        (proc'[w] # proc[w] /\ proc'[w].pc = Idle /\ RolledBack(proc'[w].resp)) =>
            /\ db' = db
            /\ proc'[w].resp.body = Message("DataValidationError")
            /\ proc'[w].resp.status \notin {HTTP_200_OK, HTTP_201_CREATED, HTTP_204_NO_CONTENT}]_vars

\* a delete that failed: the row is still stored
C19_Witness ==
    \E w \in Workers :
        /\ Completed(w)
        /\ proc[w].req.kind = "DELETE"
        /\ RolledBack(proc[w].resp)
        /\ ParseInt(proc[w].req.path) \in DOMAIN db

(* C20 *)

C20_StoredIdsWereAssigned ==
    \A id \in DOMAIN db : id < nextId /\ id \in DOMAIN audit /\ ~audit[id].deleted

C20_CreateAssignsFreshId ==
    /\ \A id \in DOMAIN db' \ DOMAIN db : id \notin DOMAIN audit
    /\ \A w \in Workers :
        (Starts(w, {"POST"}) /\ proc'[w].resp.status = HTTP_201_CREATED) =>
            /\ proc'[w].resp.body.id \notin DOMAIN audit
            /\ DOMAIN db' = DOMAIN db \cup {proc'[w].resp.body.id}

\* C20: every create assigns an id that no record, stored or deleted, ever
\* had, whatever id the caller's payload carries; the stored ids are ids the
\* sequence has handed out.
C20_IdsNeverReused == [](C20_StoredIdsWereAssigned) /\ [][C20_CreateAssignsFreshId]_vars

\* a create of a payload carrying id 1 after record 1 was deleted: it is
\* assigned id 2
C20_Witness ==
    \E w \in Workers :
        /\ Completed(w)
        /\ proc[w].req.kind = "POST"
        /\ proc[w].resp.status = HTTP_201_CREATED
        /\ Supplied(proc[w].req.body, "id")
        /\ proc[w].req.body["id"] = Num(1)
        /\ Deleted(1)
        /\ proc[w].resp.body.id = 2

(* C13 *)

\* the number a parameter gives, when the query holds it
Given(args, k) == k \in DOMAIN args

\* the ids of the items of a list answer
ItemIds(resp) == {it.id : it \in resp.body.items}

\* the conjunction of one predicate for each parameter the query holds
SatisfiesQuery(row, args) ==
    /\ Given(args, "user_id") => row.user_id = args["user_id"][2]
    /\ Given(args, "product_id") => row.product_id = args["product_id"][2]
    /\ Given(args, "score") => row.score = args["score"][2]
    /\ Given(args, "min_score") => row.score >= args["min_score"][2]
    /\ Given(args, "max_score") => row.score <= args["max_score"][2]
    /\ Given(args, "min_likes") => row.num_likes >= args["min_likes"][2]
    /\ Given(args, "max_likes") => row.num_likes <= args["max_likes"][2]

\* C13: GET /recommendations with well-typed values for some of user_id,
\* product_id, min_score, max_score, min_likes, max_likes is answered 200 with
\* exactly the stored records that satisfy the predicate of every parameter
\* present, the value 0 included.
C13_ListMatchesQuery ==
    \A w \in Workers :
        (/\ Completed(w)
         /\ proc[w].req.kind = "LIST"
         /\ DOMAIN proc[w].req.args \subseteq
                {"user_id", "product_id", "min_score", "max_score", "min_likes", "max_likes"}
         /\ \A k \in DOMAIN proc[w].req.args : Coercible(proc[w].req.args[k])) =>
            /\ proc[w].resp.status = HTTP_200_OK
            /\ ItemIds(proc[w].resp) = {i \in DOMAIN db : SatisfiesQuery(db[i], proc[w].req.args)}

(* C14 *)

\* the filters dictionary of a well-typed query
FiltersGiven(args) == [k \in DOMAIN args |-> Num(args[k][2])]

C14_FindByFilters ==
    \A q \in FilterQueries :
        FindByFilters(db, FiltersGiven(q)) = {i \in DOMAIN db : SatisfiesQuery(db[i], q)}

C14_FilterRoute ==
    \A w \in Workers :
        (Completed(w) /\ proc[w].req.kind = "FILTER" /\ proc[w].resp.status = HTTP_200_OK) =>
            ItemIds(proc[w].resp) = {i \in DOMAIN db : SatisfiesQuery(db[i], proc[w].req.args)}

C15_DateBounds ==
    \A w \in Workers :
        (Completed(w) /\ proc[w].req.kind = "LIST" /\ proc[w].resp.status = HTTP_200_OK) =>
            \A it \in proc[w].resp.body.items :
                /\ (/\ Given(proc[w].req.args, "from_date")
                    /\ proc[w].req.args["from_date"][1] = "date") =>
                        it.timestamp[2] >= proc[w].req.args["from_date"][2]
                /\ (/\ Given(proc[w].req.args, "to_date")
                    /\ proc[w].req.args["to_date"][1] = "date") =>
                        it.timestamp[2] <= proc[w].req.args["to_date"][2]

(* C16 *)

\* the text is of the type of the parameter: a number, or a day for the dates
WellTyped(k, text) ==
    IF k \in {"from_date", "to_date"} THEN text[1] = "date" ELSE text[1] = "num"

\* C16: GET /recommendations with a value that is not of its parameter's type
\* is answered 400.
C16_BadValueRejected ==
    \A w \in Workers :
        (/\ Completed(w)
         /\ proc[w].req.kind = "LIST"
         /\ \E k \in DOMAIN proc[w].req.args : ~WellTyped(k, proc[w].req.args[k])) =>
            proc[w].resp.status = HTTP_400_BAD_REQUEST

(* C17 *)

NegativeBound(args) ==
    \E k \in {"min_score", "max_score"} : Given(args, k) /\ args[k][2] < 0

\* C17: GET /recommendations/filter with a negative min_score or max_score is
\* answered 400 without a query of the store; otherwise it is answered 200
\* with the records find_by_filters returns for the parameters given.
C17_FilterValidation ==
    \A w \in Workers :
        (Completed(w) /\ proc[w].req.kind = "FILTER") =>
            IF NegativeBound(proc[w].req.args)
            THEN /\ proc[w].resp.status = HTTP_400_BAD_REQUEST
                 /\ proc[w].resp.ops = <<>>
            ELSE /\ proc[w].resp.status = HTTP_200_OK
                 /\ proc[w].resp.body =
                        Results(db, FindByFilters(db, FiltersGiven(proc[w].req.args)))

\* a negative max_score rejected while records are stored
C17_Witness ==
    \E w \in Workers :
        /\ Completed(w)
        /\ proc[w].req.kind = "FILTER"
        /\ Given(proc[w].req.args, "max_score")
        /\ proc[w].req.args["max_score"][2] < 0
        /\ proc[w].resp.status = HTTP_400_BAD_REQUEST
        /\ DOMAIN db # {}

(* C18 *)

\* C18: deserializing a dictionary with every required key into a record and
\* serializing the record gives the dictionary back.
C18_RoundTrip ==
    \A w \in Workers :
        (Completed(w) /\ proc[w].req.kind = "ROUNDTRIP") =>
            proc[w].resp.body = proc[w].req.body

(* C21 *)

\* worker w ends its commit in this step
Commits(w, pc) == proc[w].pc = pc /\ proc'[w].pc = Idle

C21_OnlyDeleteRemoves ==
    \A id \in DOMAIN db \ DOMAIN db' :
        \E w \in Workers :
            /\ Commits(w, "delete")
            /\ proc[w].obj.id = id
            /\ proc'[w].resp.status = HTTP_204_NO_CONTENT

C21_WriteKeepsId ==
    \A w \in Workers :
        (Commits(w, "update") /\ proc'[w].resp.status = HTTP_200_OK) =>
            LET id == ParseInt(proc[w].req.path) IN
            /\ DOMAIN db' = DOMAIN db
            /\ id \in DOMAIN db'
            /\ proc'[w].resp.body.id = id
            /\ GetResponse(db', proc[w].req.path).status = HTTP_200_OK

\* C21: a PUT or a like answered 200 leaves the record stored under the id of
\* the path, whatever id the body carries, and an id stops resolving only by
\* a DELETE of it.
C21_IdImmutable == [][C21_OnlyDeleteRemoves /\ C21_WriteKeepsId]_vars

\* a PUT on record 1 of a body that carries id 2, answered 200 with id 1
C21_Witness ==
    \E w \in Workers :
        /\ Completed(w)
        /\ proc[w].req.kind = "PUT"
        /\ proc[w].req.path = Str(1)
        /\ Supplied(proc[w].req.body, "id")
        /\ proc[w].req.body["id"] = Num(2)
        /\ proc[w].resp.status = HTTP_200_OK
        /\ proc[w].resp.body.id = 1
        /\ DOMAIN db = {1, 2}

(* C22 *)

\* C22: every stored record has num_likes >= 0.
C22_LikesNonNegative == \A id \in DOMAIN db : db[id].num_likes >= 0

(* C23 *)

C23_NoNullStored ==
    \A id \in DOMAIN db : id >= 1 /\ \A k \in Fields : db[id][k] # NullValue

C23_NullRejected ==
    \A w \in Workers :
        /\ (/\ Starts(w, {"POST"})
            /\ proc'[w].req.ctype = JSON
            /\ \E k \in {"user_id", "product_id", "score"} :
                    k \in DOMAIN proc'[w].req.body /\ proc'[w].req.body[k] = None) =>
                /\ proc'[w].pc = Idle
                /\ proc'[w].resp.status \notin {HTTP_200_OK, HTTP_201_CREATED}
                /\ db' = db
        /\ (/\ Commits(w, "update")
            /\ \E k \in Dirty(proc[w].obj.orig, proc[w].obj.cur) : proc[w].obj.cur[k] = None) =>
                /\ RolledBack(proc'[w].resp)
                /\ db' = db

\* C23: no stored record has a null id, user_id, product_id, score or
\* timestamp; a create or an update that would store a null fails and
\* changes no record.
C23_RequiredFieldsStored == [](C23_NoNullStored) /\ [][C23_NullRejected]_vars

\* a PUT of a null timestamp, rolled back, the record still stored
C23_Witness ==
    \E w \in Workers :
        /\ Completed(w)
        /\ proc[w].req.kind = "PUT"
        /\ proc[w].req.ctype = JSON
        /\ "timestamp" \in DOMAIN proc[w].req.body
        /\ proc[w].req.body["timestamp"] = None
        /\ RolledBack(proc[w].resp)
        /\ ParseInt(proc[w].req.path) \in DOMAIN db

(* C26 *)

C26_NothingHeldBetweenRequests ==
    \A w \in Workers : proc[w].pc = Idle => proc[w].obj = NoObj

C26_PartialAssignmentNotStored ==
    /\ \A w \in Workers :
        (/\ Starts(w, {"PUT"})
         /\ proc'[w].req.ctype = JSON
         /\ FirstMissing(proc'[w].req.body) # 0
         /\ ParseInt(proc'[w].req.path) \in DOMAIN db) =>
            /\ proc'[w].pc = Idle
            /\ proc'[w].obj = NoObj
            /\ db' = db
    /\ \A id \in DOMAIN db \cap DOMAIN db' :
        db'[id] # db[id] =>
            \E w \in Workers :
                /\ Commits(w, "update")
                /\ proc[w].obj.id = id
                /\ proc[w].req.kind = "PUT" => FirstMissing(proc[w].req.body) = 0

OthersUnchanged(id) ==
    \A i \in (DOMAIN db \cup DOMAIN db') \ {id} :
        i \in DOMAIN db /\ i \in DOMAIN db' /\ db'[i] = db[i]

\* C29: a PUT, a DELETE or a like changes no record but the one of its id, a
\* like changes no field of it but num_likes, and GET by id, GET likes, list
\* and filter change no record.
C29_WritesTouchTargetOnly ==
    [][\A w \in Workers :
        /\ Starts(w, {"GET", "GET_LIKES", "LIST", "FILTER", "PUT", "DELETE", "POST_LIKES"}) =>
                db' = db
        /\ (Commits(w, "update") \/ Commits(w, "delete")) => OthersUnchanged(proc[w].obj.id)
        /\ (/\ Commits(w, "update")
            /\ proc[w].req.kind = "POST_LIKES"
            /\ proc[w].obj.id \in DOMAIN db \cap DOMAIN db') =>
                \A k \in Fields \ {"num_likes"} :
                    db'[proc[w].obj.id][k] = db[proc[w].obj.id][k]]_vars

\* a like of record 1 answered 200 while record 2, of other values, is stored
C29_Witness ==
    \E w \in Workers :
        /\ Completed(w)
        /\ proc[w].req.kind = "POST_LIKES"
        /\ proc[w].req.path = Str(1)
        /\ proc[w].resp.status = HTTP_200_OK
        /\ DOMAIN db = {1, 2}
        /\ db[1].user_id # db[2].user_id
        /\ db[1].num_likes # db[2].num_likes

(* C25 *)

\* C25: a create, update or delete whose commit failed and was rolled back
\* is answered as a persistence failure (500), never with the status of a
\* validation error.
C25_CommitFailureIsNotValidation ==
    \A w \in Workers :
        (Completed(w) /\ RolledBack(proc[w].resp)) =>
            /\ proc[w].resp.status = HTTP_500_INTERNAL_SERVER_ERROR
            /\ proc[w].resp.status # DataValidationErrorStatus

(* C30 *)

\* the parameters GET /recommendations and GET /recommendations/filter
\* both read
CommonParams == {"user_id", "product_id", "min_score", "max_score", "min_likes"}

\* C30: on the same records and the same values of user_id, product_id,
\* min_score, max_score and min_likes, the list answers with the status of
\* the filter and, on 200, with the same set of records.
C30_ListAgreesWithFilter ==
    \A w \in Workers :
        (/\ Completed(w)
         /\ proc[w].req.kind = "LIST"
         /\ DOMAIN proc[w].req.args \subseteq CommonParams
         /\ OfParameter(proc[w].req.args)) =>
            LET filtered == FilterResponse(db, proc[w].req.args) IN
            /\ proc[w].resp.status = filtered.status
            /\ proc[w].resp.status = HTTP_200_OK => ItemIds(proc[w].resp) = ItemIds(filtered)

(* C27 *)

NoArgs == [k \in {} |-> OtherText]

\* C27: a record whose DELETE has committed is stored in no later state, is
\* answered 404 by GET and is in no list, whatever PUT or like looked it up
\* before the delete and commits after it.
C27_DeletedNotRecreated ==
    \A id \in 1..MaxId :
        Deleted(id) =>
            /\ id \notin DOMAIN db
            /\ GetResponse(db, Str(id)).status = HTTP_404_NOT_FOUND
            /\ id \notin ItemIds(ListResponse(db, NoArgs))

\* a PUT or a like that found record 1, committed after the DELETE of
\* record 1 by the other worker and was rolled back
C27_Witness ==
    \E w \in Workers, v \in Workers :
        /\ w # v
        /\ Completed(w)
        /\ proc[w].req.kind \in {"PUT", "POST_LIKES"}
        /\ proc[w].req.path = Str(1)
        /\ proc[w].resp.ops = <<"find", "commit", "rollback">>
        /\ Completed(v)
        /\ proc[v].req.kind = "DELETE"
        /\ proc[v].req.path = Str(1)
        /\ proc[v].resp.status = HTTP_204_NO_CONTENT
        /\ Deleted(1)
        /\ 1 \notin DOMAIN db

(* C24 *)

\* the stored records that satisfy a condition, each with its attributes
Stored(Cond(_)) ==
    {[id |-> i, obj |-> Load(i, db[i])] : i \in {j \in DOMAIN db : Cond(db[j])}}

AnyRow(row) == TRUE

\* C24: all() returns every stored record and no other, find_by_user(u) the
\* stored records of user u and find_by_product(p) those of product p, an
\* empty list when there is none, and find(id) the record of id or None.
C24_FindersExact ==
    \A w \in Workers :
        Completed(w) =>
            LET kind == proc[w].req.kind
                body == proc[w].resp.body IN
            /\ kind = "ALL" => body = [items |-> Stored(AnyRow)]
            /\ kind = "FIND_BY_USER" =>
                    LET OfUser(row) == row.user_id = proc[w].req.args.by IN
                    body = [items |-> Stored(OfUser)]
            /\ kind = "FIND_BY_PRODUCT" =>
                    LET OfProduct(row) == row.product_id = proc[w].req.args.by IN
                    body = [items |-> Stored(OfProduct)]
            /\ kind = "FIND" =>
                    LET id == proc[w].req.args.by IN
                    /\ DOMAIN body = {"found"}
                    /\ id \in DOMAIN db => body.found = Load(id, db[id])
                    /\ id \notin DOMAIN db => body.found = None

\* find_by_user(1) returned one of two stored records
C24_Witness ==
    \E w \in Workers :
        /\ Completed(w)
        /\ proc[w].req.kind = "FIND_BY_USER"
        /\ proc[w].req.args.by = 1
        /\ Cardinality(proc[w].resp.body.items) = 1
        /\ Cardinality(DOMAIN db) = 2

(* C28 *)

\* the row a PUT or a like, run alone on a row, leaves
Apply(req, row) ==
    IF req.kind = "POST_LIKES" THEN [row EXCEPT !.num_likes = @ + 1]
    ELSE RowOf(Deserialize(Load(0, row), req.body).obj)

\* worker w commits a PUT or a like it looked up on the row r0, after worker
\* v was answered 200 for the other of the two, run on r0
RaceEnds(w, v) ==
    /\ w # v
    /\ Commits(w, "update")
    /\ proc'[w].resp.status = HTTP_200_OK
    /\ Completed(v)
    /\ proc[v].resp.status = HTTP_200_OK
    /\ {proc[w].req.kind, proc[v].req.kind} = {"PUT", "POST_LIKES"}
    /\ proc[v].req.path = proc[w].req.path
    /\ proc[w].obj.id \in DOMAIN db
    /\ \A k \in Fields : proc[w].obj.orig[k] # None
    /\ db[proc[w].obj.id] = Apply(proc[v].req, RowOf(proc[w].obj.orig))

\* C28: after a PUT and a like of the same record that both looked it up
\* before either committed, the stored record is the one that running the
\* two one after the other, in one of the two orders, leaves.
C28_PutAndLikeSerializable ==
    [][\A w \in Workers, v \in Workers :
        RaceEnds(w, v) =>
            LET r0 == RowOf(proc[w].obj.orig) IN
            db'[proc[w].obj.id] \in {Apply(proc[w].req, Apply(proc[v].req, r0)),
                                     Apply(proc[v].req, Apply(proc[w].req, r0))}]_vars

====
